---- MODULE Spec2Model ----
(***************************************************************************)
(* State-machine model of the user-directory MCP servers:                  *)
(*   src/main.py                     (CloudDatabase, execute_search,       *)
(*                                    execute_fetch, call_tool, /sse/)     *)
(*   src/openai_compliant_server.py  (SimpleDatabase, call_tool, /sse/)    *)
(*                                                                         *)
(* Text is a sequence of one-character strings, so that lower(), str(),    *)
(* int(), isdigit() and the "in" substring test are computed, character    *)
(* by character, the way Python computes them.                             *)
(***************************************************************************)
EXTENDS Integers, Sequences, FiniteSets, TLC

VARIABLES users, seq, lastCall, resp, raised, txn, lock,
          now, pc, events, wake, opened

vars == <<users, seq, lastCall, resp, raised, txn, lock,
          now, pc, events, wake, opened>>

storeVars == <<users, seq, lastCall, resp, raised, txn, lock>>

sseVars == <<now, pc, events, wake, opened>>

(***************************************************************************)
(* Bounds of the model.                                                    *)
(***************************************************************************)
\* largest id the model lets AUTOINCREMENT hand out
MaxSeq == 2

\* instant after which the model stops the event-loop clock
MaxTime == 60

\* granularity by which the event-loop clock advances
TickStep == 15

\* number of events the model keeps per connection
MaxEvents == 3

\* number of connections open at the same time
MaxConns == 2

\* number of times the model lets one client connect
MaxOpens == 2

\* number of workers that run create_user at the same time
MaxProcs == 2

(***************************************************************************)
(* Program constants.                                                      *)
(***************************************************************************)
\* arguments.get("limit", 10)
DefaultLimit == 10

\* arguments.get("limit", 50) of list_users
DefaultListLimit == 50

\* await asyncio.sleep(30)
HeartbeatInterval == 30

(***************************************************************************)
(* Python str primitives.                                                  *)
(***************************************************************************)
Digits == <<"0", "1", "2", "3", "4", "5", "6", "7", "8", "9">>

IsDigitChar(c) == \E i \in 1..10 : Digits[i] = c

DigitVal(c) == (CHOOSE i \in 1..10 : Digits[i] = c) - 1

\* str.lower() on one character of the model's alphabet
LowerChar(c) ==
    CASE c = "A" -> "a"
      [] c = "B" -> "b"
      [] c = "X" -> "x"
      [] OTHER -> c

\* str.lower()
Lower(s) == [i \in 1..Len(s) |-> LowerChar(s[i])]

\* the Python test  q in s  on two strings
Contains(s, q) ==
    \E k \in 0..(Len(s) - Len(q)) :
        \A i \in 1..Len(q) : s[k + i] = q[i]

\* str.isdigit(): non-empty and every character a decimal digit
IsDigit(s) == Len(s) > 0 /\ \A i \in 1..Len(s) : IsDigitChar(s[i])

RECURSIVE StrNat(_)
StrNat(n) ==
    IF n < 10 THEN <<Digits[n + 1]>>
    ELSE StrNat(n \div 10) \o <<Digits[(n % 10) + 1]>>

\* str(n) of an int
Str(n) == IF n < 0 THEN <<"-">> \o StrNat(0 - n) ELSE StrNat(n)

RECURSIVE LStrip(_)
LStrip(s) == IF Len(s) > 0 /\ Head(s) = " " THEN LStrip(Tail(s)) ELSE s

RECURSIVE RStrip(_)
RStrip(s) ==
    IF Len(s) > 0 /\ s[Len(s)] = " " THEN RStrip(SubSeq(s, 1, Len(s) - 1))
    ELSE s

RECURSIVE NatVal(_)
NatVal(s) ==
    IF Len(s) = 0 THEN 0
    ELSE 10 * NatVal(SubSeq(s, 1, Len(s) - 1)) + DigitVal(s[Len(s)])

\* int(s) of a str: surrounding whitespace is ignored, one leading sign is
\* accepted, what is left must be decimal digits; anything else raises
\* ValueError (ok = FALSE)
ParseInt(s) ==
    LET t == RStrip(LStrip(s))
        signed == Len(t) > 0 /\ t[1] \in {"+", "-"}
        d == IF signed THEN Tail(t) ELSE t
    IN  IF IsDigit(d)
        THEN [ok |-> TRUE,
              val |-> IF signed /\ t[1] = "-" THEN 0 - NatVal(d) ELSE NatVal(d)]
        ELSE [ok |-> FALSE, val |-> 0]

\* dict.get(k, d)
Get(a, k, d) == IF k \in DOMAIN a THEN a[k] ELSE d

\* the empty dict
NoArgs == [k \in {} |-> 0]

\* Python None, as a payload of an envelope or an Optional[User]
None == [tag |-> "None"]

(***************************************************************************)
(* The users table.  `users` is the sequence of rows in rowid order, the   *)
(* order in which  SELECT id, name, email FROM users  returns them; `seq`  *)
(* is the AUTOINCREMENT counter kept in sqlite_sequence.                   *)
(***************************************************************************)
User(i, n, e) == [id |-> i, name |-> n, email |-> e]

\* CloudDatabase.get_users / SimpleDatabase.get_users
get_users(us) == us

\* CloudDatabase.get_user / SimpleDatabase.get_user
get_user(us, user_id) ==
    IF \E i \in 1..Len(us) : us[i].id = user_id
    THEN us[CHOOSE i \in 1..Len(us) : us[i].id = user_id]
    ELSE None

\* INSERT that does not enforce  email TEXT UNIQUE
create_user_NoUnique(us, sq, name, email) ==
    [exc |-> "none",
     users |-> Append(us, User(sq + 1, name, email)),
     seq |-> sq + 1,
     user |-> User(sq + 1, name, email)]

\* INSERT OR REPLACE: a duplicate email replaces the row that holds it
create_user_Replace(us, sq, name, email) ==
    [exc |-> "none",
     users |-> Append(SelectSeq(us, LAMBDA u : u.email # email),
                      User(sq + 1, name, email)),
     seq |-> sq + 1,
     user |-> User(sq + 1, name, email)]

\* CloudDatabase.create_user / SimpleDatabase.create_user: the UNIQUE
\* constraint on email makes the INSERT raise sqlite3.IntegrityError and the
\* connection context manager rolls the statement back; otherwise the row
\* gets the next AUTOINCREMENT id (cursor.lastrowid) and is committed
\* create_user on a table whose id is INTEGER PRIMARY KEY without
\* AUTOINCREMENT: the new id is the largest id in the table plus one
create_user_MaxPlusOne(us, sq, name, email) ==
    LET top == IF Len(us) = 0 THEN 0
               ELSE CHOOSE m \in {us[k].id : k \in 1..Len(us)} :
                        \A k \in 1..Len(us) : us[k].id <= m
    IN  IF \E i \in 1..Len(us) : us[i].email = email
        THEN [exc |-> "IntegrityError", users |-> us, seq |-> sq, user |-> None]
        ELSE [exc |-> "none",
              users |-> Append(us, User(top + 1, name, email)),
              seq |-> top + 1,
              user |-> User(top + 1, name, email)]

create_user(us, sq, name, email) ==
    IF \E i \in 1..Len(us) : us[i].email = email
    THEN [exc |-> "IntegrityError", users |-> us, seq |-> sq, user |-> None]
    ELSE [exc |-> "none",
          users |-> Append(us, User(sq + 1, name, email)),
          seq |-> sq + 1,
          user |-> User(sq + 1, name, email)]

\* update_user on a table whose email column is not declared UNIQUE
update_user_NoConstraint(us, user_id, name, email) ==
    IF ~ \E i \in 1..Len(us) : us[i].id = user_id
    THEN [exc |-> "none", users |-> us, user |-> None]
    ELSE [exc |-> "none",
          users |-> [i \in 1..Len(us) |->
                        IF us[i].id = user_id
                        THEN User(user_id, name, email) ELSE us[i]],
          user |-> User(user_id, name, email)]

\* CloudDatabase.update_user: UPDATE ... WHERE id = ?; a new email held by
\* another row raises sqlite3.IntegrityError (rolled back); rowcount = 0
\* returns None
update_user(us, user_id, name, email) ==
    IF ~ \E i \in 1..Len(us) : us[i].id = user_id
    THEN [exc |-> "none", users |-> us, user |-> None]
    ELSE IF \E i \in 1..Len(us) : us[i].id # user_id /\ us[i].email = email
    THEN [exc |-> "IntegrityError", users |-> us, user |-> None]
    ELSE [exc |-> "none",
          users |-> [i \in 1..Len(us) |->
                        IF us[i].id = user_id
                        THEN User(user_id, name, email) ELSE us[i]],
          user |-> User(user_id, name, email)]

\* CloudDatabase.delete_user: DELETE ... WHERE id = ?; rowcount > 0
delete_user(us, user_id) ==
    [users |-> SelectSeq(us, LAMBDA u : u.id # user_id),
     success |-> \E i \in 1..Len(us) : us[i].id = user_id]

(***************************************************************************)
(* Retrieval engine of src/main.py.  A formatted string is kept as the     *)
(* name of its template together with the values interpolated into it.     *)
(***************************************************************************)
\* the dict execute_search builds for one matching user
SearchResult(user) ==
    [id |-> Str(user.id),
     title |-> [template |-> "User: {name}", name |-> user.name],
     text |-> [template |-> "User {name} with email {email}. ...",
               name |-> user.name, email |-> user.email],
     url |-> [template |-> ".../users/{id}", id |-> Str(user.id)]]

\* the condition of the  if  in the search loop that tests only the name
Matches_NameOnly(query, user) == Contains(Lower(user.name), query)

\* query in user.name.lower() or query in user.email.lower()
Matches(query, user) ==
    Contains(Lower(user.name), query) \/ Contains(Lower(user.email), query)

\* the  for user in users  loop of execute_search from row i on: append on a
\* match, then break as soon as len(results) >= limit
RECURSIVE SearchLoop(_, _, _, _, _)
SearchLoop(us, i, results, query, limit) ==
    IF i > Len(us) THEN results
    ELSE LET r2 == IF Matches(query, us[i])
                   THEN Append(results, SearchResult(us[i]))
                   ELSE results
         IN  IF Len(r2) >= limit THEN r2
             ELSE SearchLoop(us, i + 1, r2, query, limit)

\* execute_search
execute_search(us, arguments) ==
    LET query == Lower(Get(arguments, "query", <<>>))
        limit == Get(arguments, "limit", DefaultLimit)
    IN  [tag |-> "dict", results |-> SearchLoop(get_users(us), 1, <<>>, query, limit)]

\* the  for u in users  loop of the e-mail lookup: first row whose lowered
\* email equals the lowered identifier
FindByEmail(us, identifier) ==
    IF \E i \in 1..Len(us) : Lower(us[i].email) = Lower(identifier)
    THEN us[CHOOSE i \in 1..Len(us) :
                /\ Lower(us[i].email) = Lower(identifier)
                /\ \A j \in 1..(i - 1) : Lower(us[j].email) # Lower(identifier)]
    ELSE None

\* the dict execute_fetch returns for a user that was found
FetchResult_SwappedMetadata(user) ==
    [tag |-> "dict",
     id |-> Str(user.id),
     title |-> [template |-> "User Profile: {name}", name |-> user.name],
     text |-> [template |-> "Complete user profile for {name} ...",
               name |-> user.name, email |-> user.email, id |-> Str(user.id)],
     url |-> [template |-> ".../users/{id}", id |-> Str(user.id)],
     metadata |-> [user_id |-> user.id, name |-> user.email, email |-> user.name,
                   account_type |-> "standard", status |-> "active"]]

FetchResult(user) ==
    [tag |-> "dict",
     id |-> Str(user.id),
     title |-> [template |-> "User Profile: {name}", name |-> user.name],
     text |-> [template |-> "Complete user profile for {name} ...",
               name |-> user.name, email |-> user.email, id |-> Str(user.id)],
     url |-> [template |-> ".../users/{id}", id |-> Str(user.id)],
     metadata |-> [user_id |-> user.id, name |-> user.name, email |-> user.email,
                   account_type |-> "standard", status |-> "active"]]

\* the dict execute_fetch returns when no user was found
FetchNotFound(identifier) ==
    [tag |-> "dict",
     id |-> identifier,
     title |-> [template |-> "User Not Found"],
     text |-> [template |-> "No user found with identifier: {identifier}",
               identifier |-> identifier],
     url |-> None,
     metadata |-> None]

\* the identifier execute_fetch works on: arguments "id", else "identifier"
FetchIdentifier(arguments) ==
    LET id == Get(arguments, "id", <<>>)
    IN  IF Len(id) = 0 THEN Get(arguments, "identifier", <<>>) ELSE id

\* the user execute_fetch resolves an identifier to, or None
FetchLookup(us, identifier) ==
    LET id_type == IF Contains(identifier, <<"@">>) THEN "email" ELSE "id"
    IN  IF id_type = "id" \/ IsDigit(identifier)
        THEN LET p == ParseInt(identifier)
             IN  IF p.ok THEN get_user(us, p.val) ELSE None
        ELSE IF id_type = "email" \/ Contains(identifier, <<"@">>)
        THEN FindByEmail(get_users(us), identifier)
        ELSE None

\* execute_fetch
execute_fetch(us, arguments) ==
    LET identifier == FetchIdentifier(arguments)
        user == FetchLookup(us, identifier)
    IN  IF user # None THEN FetchResult(user) ELSE FetchNotFound(identifier)

(***************************************************************************)
(* Dispatch facade of src/main.py.                                         *)
(***************************************************************************)
\* MCPResponse(result=..., error=...); both fields default to None
MCPResponse(result, error) == [result |-> result, error |-> error]

\* str(e) of a caught exception, as the error text of an envelope
ErrorText(prefix, detail) == [tag |-> "str", prefix |-> prefix, detail |-> detail]

\* users[:limit]
Slice(us, limit) ==
    IF limit >= 0
    THEN SubSeq(us, 1, IF limit < Len(us) THEN limit ELSE Len(us))
    ELSE SubSeq(us, 1, IF Len(us) + limit > 0 THEN Len(us) + limit ELSE 0)

\* what the try block of call_tool yields without its except clause
Returned(us, sq, envelope) ==
    [exc |-> "none", detail |-> "", users |-> us, seq |-> sq, ret |-> envelope]

\* an exception leaving the try block of call_tool
Raised(us, sq, exc, detail) ==
    [exc |-> exc, detail |-> detail, users |-> us, seq |-> sq,
     ret |-> MCPResponse(None, None)]

\* the try block of call_tool
ToolBody(us, sq, name, arguments) ==
    CASE name = "search" ->
            Returned(us, sq, MCPResponse(execute_search(us, arguments), None))
      [] name = "fetch" ->
            Returned(us, sq, MCPResponse(execute_fetch(us, arguments), None))
      [] name = "create_user" ->
            IF ~ ({"name", "email"} \subseteq DOMAIN arguments)
            THEN Raised(us, sq, "ValidationError",
                        "validation error for User: field required")
            ELSE LET c == create_user(us, sq, arguments["name"], arguments["email"])
                 IN  IF c.exc # "none"
                     THEN Raised(c.users, c.seq, c.exc,
                                 "UNIQUE constraint failed: users.email")
                     ELSE Returned(c.users, c.seq,
                            MCPResponse([tag |-> "str",
                                         template |-> "Created user: ID={id}, Name={name}, Email={email}",
                                         id |-> c.user.id, name |-> c.user.name,
                                         email |-> c.user.email], None))
      [] name = "list_users" ->
            LET limit == Get(arguments, "limit", DefaultListLimit)
                all == get_users(us)
            IN  IF Len(all) = 0
                THEN Returned(us, sq, MCPResponse([tag |-> "str",
                                 template |-> "No users in database"], None))
                ELSE Returned(us, sq, MCPResponse([tag |-> "str",
                                 template |-> "Users ({shown} of {total}): ...",
                                 shown |-> Slice(all, limit),
                                 total |-> Len(all)], None))
      [] name = "get_user" ->
            IF "user_id" \notin DOMAIN arguments
            THEN Raised(us, sq, "KeyError", "'user_id'")
            ELSE LET user == get_user(us, arguments["user_id"])
                 IN  IF user # None
                     THEN Returned(us, sq, MCPResponse([tag |-> "str",
                                 template |-> "User: ID={id}, Name={name}, Email={email}",
                                 id |-> user.id, name |-> user.name,
                                 email |-> user.email], None))
                     ELSE Returned(us, sq, MCPResponse([tag |-> "str",
                                 template |-> "User not found: ID={user_id}",
                                 user_id |-> arguments["user_id"]], None))
      [] name = "update_user" ->
            IF "user_id" \notin DOMAIN arguments
            THEN Raised(us, sq, "KeyError", "'user_id'")
            ELSE IF "name" \notin DOMAIN arguments
            THEN Raised(us, sq, "KeyError", "'name'")
            ELSE IF "email" \notin DOMAIN arguments
            THEN Raised(us, sq, "KeyError", "'email'")
            ELSE LET u == update_user(us, arguments["user_id"],
                                      arguments["name"], arguments["email"])
                 IN  IF u.exc # "none"
                     THEN Raised(u.users, sq, u.exc,
                                 "UNIQUE constraint failed: users.email")
                     ELSE IF u.user # None
                     THEN Returned(u.users, sq, MCPResponse([tag |-> "str",
                                 template |-> "Updated: ID={id}, Name={name}, Email={email}",
                                 id |-> u.user.id, name |-> u.user.name,
                                 email |-> u.user.email], None))
                     ELSE Returned(u.users, sq, MCPResponse([tag |-> "str",
                                 template |-> "User not found: ID={user_id}",
                                 user_id |-> arguments["user_id"]], None))
      [] name = "delete_user" ->
            IF "user_id" \notin DOMAIN arguments
            THEN Raised(us, sq, "KeyError", "'user_id'")
            ELSE LET d == delete_user(us, arguments["user_id"])
                 IN  IF d.success
                     THEN Returned(d.users, sq, MCPResponse([tag |-> "str",
                                 template |-> "Deleted user: ID={user_id}",
                                 user_id |-> arguments["user_id"]], None))
                     ELSE Returned(d.users, sq, MCPResponse([tag |-> "str",
                                 template |-> "User not found: ID={user_id}",
                                 user_id |-> arguments["user_id"]], None))
      [] OTHER ->
            Returned(us, sq, MCPResponse(None, ErrorText("Unknown tool: ", name)))

\* the except clause of call_tool of src/main.py, for an exception whose
\* str(e) is detail: return MCPResponse(error=str(e))
call_tool_except(detail) == MCPResponse(None, ErrorText("", detail))

\* call_tool whose except clause lets the exception through
call_tool_NoCatch(us, sq, name, arguments) ==
    LET b == ToolBody(us, sq, name, arguments)
    IN  [users |-> b.users, seq |-> b.seq, resp |-> b.ret,
         raised |-> b.exc # "none"]

\* call_tool of src/main.py: the try block, and
\*   except Exception as e: return MCPResponse(error=str(e))
call_tool(us, sq, name, arguments) ==
    LET b == ToolBody(us, sq, name, arguments)
    IN  [users |-> b.users, seq |-> b.seq,
         resp |-> IF b.exc # "none"
                  THEN call_tool_except(b.detail)
                  ELSE b.ret,
         raised |-> FALSE]

(***************************************************************************)
(* Dispatch facade of src/openai_compliant_server.py (search and fetch     *)
(* only, over a SimpleDatabase with the same table and create_user).       *)
(***************************************************************************)
\* the dict the search branch appends for one matching user
OpenaiSearchResult(query, user) ==
    [id |-> user.id, name |-> user.name, email |-> user.email,
     type |-> "user_record",
     relevance |-> IF Contains(Lower(user.name), query) THEN "high" ELSE "medium"]

\* the  for user in users  loop of the search branch from row i on
RECURSIVE OpenaiSearchLoop(_, _, _, _, _)
OpenaiSearchLoop(us, i, results, query, limit) ==
    IF i > Len(us) THEN results
    ELSE LET r2 == IF Matches(query, us[i])
                   THEN Append(results, OpenaiSearchResult(query, us[i]))
                   ELSE results
         IN  IF Len(r2) >= limit THEN r2
             ELSE OpenaiSearchLoop(us, i + 1, r2, query, limit)

\* the try block of call_tool
OpenaiToolBody(us, name, arguments) ==
    CASE name = "search" ->
            LET query == Lower(Get(arguments, "query", <<>>))
                limit == Get(arguments, "limit", DefaultLimit)
                results == OpenaiSearchLoop(get_users(us), 1, <<>>, query, limit)
            IN  IF Len(results) = 0
                THEN Returned(us, 0, MCPResponse([tag |-> "str",
                        template |-> "No users found matching query: '{query}'",
                        query |-> query, results |-> results], None))
                ELSE Returned(us, 0, MCPResponse([tag |-> "str",
                        template |-> "Found {n} users matching '{query}': ...",
                        query |-> query, results |-> results], None))
      [] name = "fetch" ->
            IF "identifier" \notin DOMAIN arguments
            THEN Raised(us, 0, "KeyError", "'identifier'")
            ELSE IF "type" \notin DOMAIN arguments
            THEN Raised(us, 0, "KeyError", "'type'")
            ELSE LET identifier == arguments["identifier"]
                     id_type == arguments["type"]
                     p == ParseInt(identifier)
                     user == IF id_type = "id" THEN get_user(us, p.val)
                             ELSE IF id_type = "email"
                             THEN FindByEmail(get_users(us), identifier)
                             ELSE None
                 IN  IF id_type = "id" /\ ~ p.ok
                     THEN Returned(us, 0, MCPResponse(None,
                            [tag |-> "str",
                             template |-> "Invalid user ID format: {identifier}",
                             identifier |-> identifier]))
                     ELSE IF user # None
                     THEN Returned(us, 0, MCPResponse([tag |-> "str",
                            template |-> "[DETAILS] **User Details** ...",
                            id |-> user.id, name |-> user.name,
                            email |-> user.email], None))
                     ELSE Returned(us, 0, MCPResponse(None,
                            [tag |-> "str",
                             template |-> "User not found: {identifier}",
                             identifier |-> identifier]))
      [] OTHER ->
            Returned(us, 0, MCPResponse(None,
                [tag |-> "str",
                 template |-> "Unknown tool: {name}. Only 'search' and 'fetch' tools are supported ...",
                 name |-> name]))

\* the except clause of call_tool of src/openai_compliant_server.py
openai_call_tool_except(detail) ==
    MCPResponse(None, ErrorText("Execution error: ", detail))

\* call_tool of src/openai_compliant_server.py: the try block, and
\*   except Exception as e: return MCPResponse(error=f"Execution error: {str(e)}")
openai_call_tool(us, name, arguments) ==
    LET b == OpenaiToolBody(us, name, arguments)
    IN  [resp |-> IF b.exc # "none"
                  THEN openai_call_tool_except(b.detail)
                  ELSE b.ret,
         raised |-> FALSE]

(***************************************************************************)
(* Inputs of the operations.                                               *)
(***************************************************************************)
\* "Ab", "b x"
Names == {<<"A", "b">>, <<"b", " ", "x">>}

\* "a@x", "A@x", "b@x"
Emails == {<<"a", "@", "x">>, <<"A", "@", "x">>, <<"b", "@", "x">>}

\* "", " ", "AB", "a@", "xx"
Queries == {<<>>, <<" ">>, <<"A", "B">>, <<"a", "@">>, <<"x", "x">>}

Limits == {-1, 0, 1, 3}

Ids == 1..MaxSeq

\* str(i) of every id, "999", " 1", "+1", the addresses, "A@X", "x@x",
\* "ab", ""
Identifiers ==
    {Str(i) : i \in Ids}
      \cup {<<"9", "9", "9">>, <<" ", "1">>, <<"+", "1">>}
      \cup Emails
      \cup {<<"A", "@", "X">>, <<"x", "@", "x">>, <<"a", "b">>, <<>>}

SearchArgs ==
    {[query |-> q] : q \in Queries}
      \cup {[query |-> q, limit |-> l] : q \in {<<>>, <<"a", "@">>}, l \in Limits}
      \cup {NoArgs}

FetchArgs ==
    {[id |-> s] : s \in Identifiers}
      \cup {[identifier |-> <<"A", "@", "X">>]}
      \cup {NoArgs}

CreateArgs ==
    {[name |-> n, email |-> e] : n \in Names, e \in Emails}
      \cup {[name |-> n] : n \in Names}

ListArgs == {NoArgs} \cup {[limit |-> l] : l \in {-1, 1}}

IdArgs == {[user_id |-> i] : i \in Ids} \cup {NoArgs}

UpdateArgs ==
    {[user_id |-> i, name |-> <<"A", "b">>, email |-> e] : i \in Ids, e \in Emails}
      \cup {[user_id |-> 1]}

UnknownTools == {"drop_users"}

OpenaiFetchArgs ==
    {[identifier |-> s, type |-> t] :
        s \in {<<"1">>, <<"a", "b">>, <<"A", "@", "X">>, <<"x", "@", "x">>},
        t \in {"id", "email"}}
      \cup {[identifier |-> <<"1">>, type |-> "name"], [identifier |-> <<"1">>]}

(***************************************************************************)
(* State after construction: CloudDatabase() created an empty users table, *)
(* no call was made, no stream is open.                                    *)
(***************************************************************************)
Conns == 1..MaxConns

NoCall == [server |-> "none", name |-> "", arguments |-> NoArgs]

Procs == 1..MaxProcs

\* a worker that is not inside create_user and has not called it yet
\* (began: the number of rows the table held when the worker connected)
NoTxn ==
    [pc |-> "idle", name |-> <<>>, email |-> <<>>, outcome |-> "none", id |-> 0,
     began |-> 0]

Init ==
    /\ users = <<>>
    /\ seq = 0
    /\ lastCall = NoCall
    /\ resp = MCPResponse(None, None)
    /\ raised = FALSE
    /\ txn = [p \in Procs |-> NoTxn]
    /\ lock = 0
    /\ now = 0
    /\ pc = [c \in Conns |-> "closed"]
    /\ events = [c \in Conns |-> <<>>]
    /\ wake = [c \in Conns |-> 0]
    /\ opened = [c \in Conns |-> 0]

(***************************************************************************)
(* POST /call of src/main.py.                                              *)
(***************************************************************************)
CallTool(name, arguments) ==
    LET r == call_tool(users, seq, name, arguments)
    IN  /\ users' = r.users
        /\ seq' = r.seq
        /\ resp' = r.resp
        /\ raised' = r.raised
        /\ lastCall' = [server |-> "main", name |-> name, arguments |-> arguments]
        /\ UNCHANGED <<txn, lock>>
        /\ UNCHANGED sseVars

Search == \E a \in SearchArgs : CallTool("search", a)

Fetch == \E a \in FetchArgs : CallTool("fetch", a)

CreateUser == seq < MaxSeq /\ \E a \in CreateArgs : CallTool("create_user", a)

ListUsers == \E a \in ListArgs : CallTool("list_users", a)

GetUser == \E a \in IdArgs : CallTool("get_user", a)

UpdateUser == \E a \in UpdateArgs : CallTool("update_user", a)

DeleteUser == \E a \in IdArgs : CallTool("delete_user", a)

UnknownTool == \E n \in UnknownTools : CallTool(n, [user_id |-> 1])

(***************************************************************************)
(* POST /call of src/openai_compliant_server.py.                           *)
(***************************************************************************)
OpenaiCallTool(name, arguments) ==
    LET r == openai_call_tool(users, name, arguments)
    IN  /\ resp' = r.resp
        /\ raised' = r.raised
        /\ lastCall' = [server |-> "openai", name |-> name, arguments |-> arguments]
        /\ UNCHANGED <<users, seq, txn, lock>>
        /\ UNCHANGED sseVars

OpenaiSearch == \E a \in SearchArgs : OpenaiCallTool("search", a)

OpenaiFetch == \E a \in OpenaiFetchArgs : OpenaiCallTool("fetch", a)

OpenaiUnknownTool ==
    \E n \in UnknownTools \cup {"create_user"} :
        OpenaiCallTool(n, [name |-> <<"A", "b">>, email |-> <<"b", "@", "x">>])

NextStore ==
    \/ Search
    \/ Fetch
    \/ CreateUser
    \/ ListUsers
    \/ GetUser
    \/ UpdateUser
    \/ DeleteUser
    \/ UnknownTool
    \/ OpenaiSearch
    \/ OpenaiFetch
    \/ OpenaiUnknownTool

Spec == Init /\ [][NextStore]_vars

(***************************************************************************)
(* CloudDatabase.create_user run by several workers on the one database    *)
(* file, statement by statement.  txn[p] is worker p's position in         *)
(* create_user ("idle", "insert": connected, before cursor.execute,        *)
(* "commit": the INSERT done, before conn.commit()), its arguments and the *)
(* outcome of its last call; lock is the worker that holds SQLite's write  *)
(* lock (0: nobody).  A worker that finds the lock held waits in SQLite's  *)
(* busy handler.                                                           *)
(***************************************************************************)
\* with sqlite3.connect(self.db_path) as conn: cursor = conn.cursor()
RaceBegin(p) ==
    /\ txn[p].pc = "idle"
    /\ seq + Cardinality({q \in Procs : txn[q].pc # "idle"}) < MaxSeq
    /\ \E e \in Emails :
          txn' = [txn EXCEPT ![p] = [pc |-> "insert", name |-> <<"A", "b">>,
                                     email |-> e, outcome |-> "none", id |-> 0,
                                     began |-> Len(users)]]
    /\ UNCHANGED <<users, seq, lastCall, resp, raised, lock>>
    /\ UNCHANGED sseVars

\* an INSERT into a table whose email column is not declared UNIQUE
RaceInsert_NoConstraint(p) ==
    /\ txn[p].pc = "insert"
    /\ lock = 0
    /\ LET c == create_user_NoUnique(users, seq, txn[p].name, txn[p].email)
       IN  /\ users' = c.users
           /\ seq' = c.seq
           /\ lock' = p
           /\ txn' = [txn EXCEPT ![p].pc = "commit", ![p].id = c.user.id]
    /\ UNCHANGED <<lastCall, resp, raised>>
    /\ UNCHANGED sseVars

\* cursor.execute("INSERT INTO users ..."): takes the write lock, checks the
\* UNIQUE constraint and inserts in one statement; sqlite3.IntegrityError
\* leaves the with block, which rolls back and releases the lock
RaceInsert(p) ==
    /\ txn[p].pc = "insert"
    /\ lock = 0
    /\ LET c == create_user(users, seq, txn[p].name, txn[p].email)
       IN  IF c.exc # "none"
           THEN /\ txn' = [txn EXCEPT ![p].pc = "idle", ![p].outcome = c.exc]
                /\ UNCHANGED <<users, seq, lock>>
           ELSE /\ users' = c.users
                /\ seq' = c.seq
                /\ lock' = p
                /\ txn' = [txn EXCEPT ![p].pc = "commit", ![p].id = c.user.id]
    /\ UNCHANGED <<lastCall, resp, raised>>
    /\ UNCHANGED sseVars

\* user.id = cursor.lastrowid; conn.commit(); return user
RaceCommit(p) ==
    /\ txn[p].pc = "commit"
    /\ lock = p
    /\ lock' = 0
    /\ txn' = [txn EXCEPT ![p].pc = "idle", ![p].outcome = "created"]
    /\ UNCHANGED <<users, seq, lastCall, resp, raised>>
    /\ UNCHANGED sseVars

NextRace ==
    \/ \E p \in Procs : RaceBegin(p)
    \/ \E p \in Procs : RaceInsert(p)
    \/ \E p \in Procs : RaceCommit(p)

SpecRace == Init /\ [][NextRace]_vars

(***************************************************************************)
(* GET /sse/: one event_stream generator per connection.  pc[c] is the     *)
(* generator's position: "closed" (no connection), "handshake" (created,   *)
(* before its first yield), "sleep" (inside await asyncio.sleep(30), which *)
(* returns at wake[c] or later), "done" (past the generator's last         *)
(* statement, which the  while True  loop has no way to reach).            *)
(* events[c] is what the current connection of client c has been sent,     *)
(* each event with the event-loop time of its emission; opened[c] counts   *)
(* the connections client c has made.                                      *)
(***************************************************************************)
Event(type, at) == [type |-> type, at |-> at]

\* the event loop's clock, asyncio.get_event_loop().time()
Tick ==
    /\ now < MaxTime
    /\ now' = now + TickStep
    /\ UNCHANGED <<pc, events, wake, opened>>
    /\ UNCHANGED storeVars

\* sse_endpoint: a new StreamingResponse(event_stream())
Connect(c) ==
    /\ pc[c] = "closed"
    /\ opened[c] < MaxOpens
    /\ pc' = [pc EXCEPT ![c] = "handshake"]
    /\ events' = [events EXCEPT ![c] = <<>>]
    /\ opened' = [opened EXCEPT ![c] = @ + 1]
    /\ UNCHANGED <<now, wake>>
    /\ UNCHANGED storeVars

\* yield f"data: {json.dumps(mcp_spec)}\n\n", then into asyncio.sleep(30)
EmitHandshake(c) ==
    /\ pc[c] = "handshake"
    /\ events' = [events EXCEPT ![c] = Append(@, Event("handshake", now))]
    /\ pc' = [pc EXCEPT ![c] = "sleep"]
    /\ wake' = [wake EXCEPT ![c] = now + HeartbeatInterval]
    /\ UNCHANGED <<now, opened>>
    /\ UNCHANGED storeVars

\* a keep-alive loop that yields without awaiting the sleep
EmitHeartbeat_NoSleep(c) ==
    /\ pc[c] = "sleep"
    /\ Len(events[c]) < MaxEvents
    /\ events' = [events EXCEPT ![c] = Append(@, Event("heartbeat", now))]
    /\ wake' = [wake EXCEPT ![c] = now + HeartbeatInterval]
    /\ UNCHANGED <<now, pc, opened>>
    /\ UNCHANGED storeVars

\* a keep-alive without the  while True : one heartbeat, then the generator
\* returns
EmitHeartbeat_Once(c) ==
    /\ pc[c] = "sleep"
    /\ now >= wake[c]
    /\ Len(events[c]) < MaxEvents
    /\ events' = [events EXCEPT ![c] = Append(@, Event("heartbeat", now))]
    /\ pc' = [pc EXCEPT ![c] = "done"]
    /\ UNCHANGED <<now, wake, opened>>
    /\ UNCHANGED storeVars

\* asyncio.sleep(30) returns, yield the heartbeat, back into asyncio.sleep(30)
EmitHeartbeat(c) ==
    /\ pc[c] = "sleep"
    /\ now >= wake[c]
    /\ Len(events[c]) < MaxEvents
    /\ events' = [events EXCEPT ![c] = Append(@, Event("heartbeat", now))]
    /\ wake' = [wake EXCEPT ![c] = now + HeartbeatInterval]
    /\ UNCHANGED <<now, pc, opened>>
    /\ UNCHANGED storeVars

\* the peer closes the connection: the generator is closed where it stands
Disconnect(c) ==
    /\ pc[c] # "closed"
    /\ pc' = [pc EXCEPT ![c] = "closed"]
    /\ UNCHANGED <<now, events, wake, opened>>
    /\ UNCHANGED storeVars

NextSSE ==
    \/ Tick
    \/ \E c \in Conns : Connect(c)
    \/ \E c \in Conns : EmitHandshake(c)
    \/ \E c \in Conns : EmitHeartbeat(c)
    \/ \E c \in Conns : Disconnect(c)

SpecSSE == Init /\ [][NextSSE]_vars

\* the client whose stream is followed for progress; streams share nothing
\* but the event loop's clock
LiveConns == {1}

\* the event loop's clock while some stream is inside asyncio.sleep(30) and
\* its wake-up time lies ahead (the clock of an idle loop is left out)
LiveTick ==
    /\ \E c \in LiveConns : pc[c] = "sleep" /\ now < wake[c]
    /\ now' = now + TickStep
    /\ UNCHANGED <<pc, events, wake, opened>>
    /\ UNCHANGED storeVars

NextLive ==
    \/ LiveTick
    \/ \E c \in LiveConns : Connect(c)
    \/ \E c \in LiveConns : EmitHandshake(c)
    \/ \E c \in LiveConns : EmitHeartbeat(c)
    \/ \E c \in LiveConns : Disconnect(c)

\* time passes, and the event loop resumes a stream whose sleep is over
FairSpecSSE ==
    /\ Init
    /\ [][NextLive]_vars
    /\ WF_vars(LiveTick)
    /\ \A c \in LiveConns : WF_vars(EmitHeartbeat(c))

(***************************************************************************)
(* Vocabulary of the properties.                                           *)
(***************************************************************************)
\* q occurs in s as a contiguous run of characters
IsSubstring(q, s) ==
    \E i \in 0..(Len(s) - Len(q)) : SubSeq(s, i + 1, i + Len(q)) = q

\* s is empty or consists of whitespace only
IsBlank(s) == \A i \in 1..Len(s) : s[i] = " "

\* the last call was operation name of POST /call (either server)
Called(name) == lastCall.server # "none" /\ lastCall.name = name

\* the query and the limit of the last search call
CalledQuery == Get(lastCall.arguments, "query", <<>>)

CalledLimit == Get(lastCall.arguments, "limit", DefaultLimit)

\* the results of the last search call
CalledResults == resp.result.results

\* the id of row u in the form the last called server puts it in a result
ResultKey(u) == IF lastCall.server = "main" THEN Str(u.id) ELSE u.id

\* the rows, in store order, that hold the folded query in name or address
RECURSIVE MatchingKeys(_, _)
MatchingKeys(us, q) ==
    IF Len(us) = 0 THEN <<>>
    ELSE (IF IsSubstring(Lower(q), Lower(Head(us).name))
             \/ IsSubstring(Lower(q), Lower(Head(us).email))
          THEN <<ResultKey(Head(us))>> ELSE <<>>)
         \o MatchingKeys(Tail(us), q)

(***************************************************************************)
(* C1: in every state reachable by create, update and delete from the      *)
(* empty store, no two rows have the same id and no two rows have the same *)
(* address.                                                                *)
(***************************************************************************)
C1_UniqueIdAndAddress ==
    \A i, j \in 1..Len(users) :
        i # j => users[i].id # users[j].id /\ users[i].email # users[j].email

\* two rows are stored and the last call was an update that was applied
C1_Witness ==
    /\ Len(users) = 2
    /\ Called("update_user")
    /\ resp.result # None
    /\ resp.result.template = "Updated: ID={id}, Name={name}, Email={email}"

(***************************************************************************)
(* C2: a create whose address already belongs to a row fails with the      *)
(* UNIQUE-constraint error in an error envelope and leaves the rows (and    *)
(* so the row count) and the id counter as they were.                       *)
(***************************************************************************)
C2_DuplicateCreateRejected ==
    [][(/\ lastCall'.server = "main"
        /\ lastCall'.name = "create_user"
        /\ {"name", "email"} \subseteq DOMAIN lastCall'.arguments
        /\ \E i \in 1..Len(users) : users[i].email = lastCall'.arguments["email"])
       => (/\ resp'.result = None
           /\ resp'.error # None
           /\ resp'.error.detail = "UNIQUE constraint failed: users.email"
           /\ users' = users
           /\ Len(users') = Len(users)
           /\ seq' = seq)]_vars

\* the last call was a create of an address a row holds, answered by an error
C2_Witness ==
    /\ lastCall.server = "main"
    /\ lastCall.name = "create_user"
    /\ "email" \in DOMAIN lastCall.arguments
    /\ resp.error # None
    /\ \E i \in 1..Len(users) : users[i].email = lastCall.arguments["email"]

(***************************************************************************)
(* C3: a search whose query is empty or whitespace only returns no         *)
(* results, whatever the store holds and whatever the limit is.            *)
(***************************************************************************)
C3_BlankQueryReturnsNothing ==
    (Called("search") /\ IsBlank(CalledQuery)) => CalledResults = <<>>

(***************************************************************************)
(* C4: for a non-empty query and a limit at least the number of rows, a    *)
(* search returns a result for a row if and only if the case-folded query  *)
(* is a substring of the row's case-folded name or case-folded address.    *)
(***************************************************************************)
C4_SearchReturnsExactlyMatches ==
    (Called("search") /\ Len(CalledQuery) > 0 /\ CalledLimit >= Len(users))
    => \A i \in 1..Len(users) :
          (\E k \in 1..Len(CalledResults) :
                CalledResults[k].id = ResultKey(users[i]))
          <=> (\/ IsSubstring(Lower(CalledQuery), Lower(users[i].name))
               \/ IsSubstring(Lower(CalledQuery), Lower(users[i].email)))

\* a search by a non-empty query over two rows returned one and left out the
\* other, the returned row matching by its address only
C4_Witness ==
    /\ Called("search")
    /\ Len(CalledQuery) > 0
    /\ CalledLimit >= Len(users)
    /\ Len(users) = 2
    /\ Len(CalledResults) = 1
    /\ \E i \in 1..2 :
          /\ CalledResults[1].id = ResultKey(users[i])
          /\ ~ IsSubstring(Lower(CalledQuery), Lower(users[i].name))

(***************************************************************************)
(* C5: a search never returns more than limit results (10 when the limit   *)
(* is omitted; none when the limit is below zero), for every limit value,  *)
(* and what it returns is a prefix of the matching rows in store order.    *)
(* Stated for non-blank queries.                                           *)
(***************************************************************************)
C5_AtMostLimitAndPrefix ==
    (Called("search") /\ ~ IsBlank(CalledQuery))
    => /\ Len(CalledResults) <= (IF CalledLimit < 0 THEN 0 ELSE CalledLimit)
       /\ LET m == MatchingKeys(users, CalledQuery)
          IN  /\ Len(CalledResults) <= Len(m)
              /\ \A k \in 1..Len(CalledResults) : CalledResults[k].id = m[k]

(***************************************************************************)
(* C6: for every row, a fetch by the row's address written in any letter   *)
(* case answers as the fetch by str(id) of that row does.                  *)
(***************************************************************************)
C6_FetchByAddressIsFetchById ==
    \A i \in 1..Len(users) :
        \A s \in Identifiers :
            Lower(s) = Lower(users[i].email)
            => call_tool(users, seq, "fetch", [id |-> s]).resp
                 = call_tool(users, seq, "fetch", [id |-> Str(users[i].id)]).resp

(***************************************************************************)
(* C7: after a create that returned id i, and for every row i stored, the  *)
(* fetch of str(i) is a result envelope whose metadata.user_id is i and    *)
(* whose metadata.email is the address given to create (the row's address).*)
(***************************************************************************)
FetchedById(i) == call_tool(users, seq, "fetch", [id |-> Str(i)]).resp

C7_CreateFetchRoundTrip ==
    /\ (lastCall.server = "main" /\ lastCall.name = "create_user"
            /\ resp.result # None)
       => LET f == FetchedById(resp.result.id)
          IN  /\ f.error = None
              /\ f.result.metadata # None
              /\ f.result.metadata.user_id = resp.result.id
              /\ f.result.metadata.email = lastCall.arguments["email"]
    /\ \A k \in 1..Len(users) :
          LET f == FetchedById(users[k].id)
          IN  /\ f.error = None
              /\ f.result.metadata # None
              /\ f.result.metadata.user_id = users[k].id
              /\ f.result.metadata.email = users[k].email

\* the last call created the second row of the store
C7_Witness ==
    /\ lastCall.server = "main"
    /\ lastCall.name = "create_user"
    /\ resp.result # None
    /\ Len(users) = 2
    /\ users[2].id = resp.result.id

(***************************************************************************)
(* C8: a fetch (POST /call of src/main.py) of an identifier that is the    *)
(* str(id) of no row and the address, in any letter case, of no row is     *)
(* answered by an error envelope, not by a result envelope.                *)
(***************************************************************************)
C8_FetchOfUnknownIsError ==
    (/\ lastCall.server = "main"
     /\ lastCall.name = "fetch"
     /\ LET s == FetchIdentifier(lastCall.arguments)
        IN  \A i \in 1..Len(users) :
                Str(users[i].id) # s /\ Lower(users[i].email) # Lower(s))
    => (resp.error # None /\ resp.result = None)

(***************************************************************************)
(* C9: every call of call_tool returns one envelope that carries either a  *)
(* result or an error, and never raises; an operation name outside the     *)
(* server's known set is answered by an error envelope and changes nothing *)
(* in the store.                                                           *)
(***************************************************************************)
KnownTools(server) ==
    IF server = "main"
    THEN {"search", "fetch", "create_user", "list_users", "get_user",
          "update_user", "delete_user"}
    ELSE {"search", "fetch"}

C9_AlwaysOneEnvelope ==
    /\ [](lastCall.server # "none"
            => /\ ~ raised
               /\ (resp.result # None) # (resp.error # None))
    /\ [][(lastCall'.server # "none"
            /\ lastCall'.name \notin KnownTools(lastCall'.server))
          => (/\ resp'.error # None
              /\ resp'.result = None
              /\ ~ raised'
              /\ users' = users
              /\ seq' = seq)]_vars

\* an unknown operation was called on a store of two rows, and answered by
\* an error envelope
C9_Witness ==
    /\ lastCall.server = "main"
    /\ lastCall.name \in UnknownTools
    /\ resp.error # None
    /\ Len(users) = 2

(***************************************************************************)
(* C10: on every connection of the notification channel the first event    *)
(* is the handshake, there is exactly one handshake, and every later event *)
(* is a heartbeat emitted at least the fixed interval after the event      *)
(* before it.                                                              *)
(***************************************************************************)
C10_HandshakeThenSpacedHeartbeats ==
    \A c \in Conns :
        /\ pc[c] = "sleep" => Len(events[c]) >= 1
        /\ Len(events[c]) >= 1 => events[c][1].type = "handshake"
        /\ \A i \in 2..Len(events[c]) :
              /\ events[c][i].type = "heartbeat"
              /\ events[c][i].at - events[c][i - 1].at >= HeartbeatInterval

\* client 1 is on its second connection and has been sent a handshake and
\* a heartbeat on it, while client 2 is connected and has been sent its own
\* handshake
C10_Witness ==
    /\ opened[1] = 2
    /\ pc[1] = "sleep"
    /\ Len(events[1]) >= 2
    /\ pc[2] = "sleep"
    /\ Len(events[2]) >= 1

(***************************************************************************)
(* C11: the stream never ends on its own: while a connection stays open,   *)
(* another heartbeat is always eventually emitted (time passing and the    *)
(* event loop resuming a stream whose sleep is over); a stream ends only   *)
(* by the close of its connection, and after the close no event is emitted *)
(* on that connection.                                                     *)
(***************************************************************************)
C11_StreamEndsOnlyByClose ==
    /\ \A c \in LiveConns : \A n \in 1..(MaxEvents - 1) :
          (pc[c] = "sleep" /\ Len(events[c]) = n)
             ~> (pc[c] = "closed" \/ Len(events[c]) > n)
    /\ [](\A c \in Conns : pc[c] # "done")
    /\ [][\A c \in Conns :
            /\ (pc[c] # "closed" /\ pc'[c] = "closed") => events'[c] = events[c]
            /\ pc[c] = "closed"
                 => (events'[c] = events[c]
                       \/ (pc'[c] = "handshake" /\ events'[c] = <<>>))]_vars

\* the second connection of client 1 was sent a handshake and two
\* heartbeats and was then closed; the client's events are those three
C11_Witness ==
    /\ opened[1] = 2
    /\ pc[1] = "closed"
    /\ Len(events[1]) = 3
    /\ events[1][3].type = "heartbeat"

(***************************************************************************)
(* C12: when creates of the same address run at the same time, in whatever *)
(* order their statements interleave, at most one of them succeeds and     *)
(* every other one is rejected by the UNIQUE constraint, on a row that     *)
(* holds the address; no two rows ever share an address.                   *)
(***************************************************************************)
\* worker p's INSERT went through (committed or about to be)
Succeeded(p) == txn[p].pc = "commit" \/ txn[p].outcome = "created"

C12_RacingCreatesOneWinner ==
    /\ \A i, j \in 1..Len(users) : i # j => users[i].email # users[j].email
    /\ \A p, q \in Procs :
          (p # q /\ txn[p].email = txn[q].email)
             => ~ (Succeeded(p) /\ Succeeded(q))
    /\ \A p \in Procs :
          (txn[p].pc = "idle" /\ txn[p].outcome # "none")
             => \/ /\ txn[p].outcome = "created"
                   /\ \E i \in 1..Len(users) :
                         users[i].id = txn[p].id /\ users[i].email = txn[p].email
                \/ /\ txn[p].outcome = "IntegrityError"
                   /\ \E i \in 1..Len(users) : users[i].email = txn[p].email

\* two workers entered create_user with the same address while the table
\* was empty: worker 1's INSERT went through, worker 2's was rejected
C12_Witness ==
    /\ txn[1].outcome = "created"
    /\ txn[2].outcome = "IntegrityError"
    /\ txn[2].email = txn[1].email
    /\ txn[1].began = 0
    /\ txn[2].began = 0
    /\ Len(users) = 1

(***************************************************************************)
(* C13: a search called with a limit that is zero or negative returns no   *)
(* results, whatever the query and the store (also when the first row in   *)
(* store order matches the query).  Stated for non-blank queries, so that  *)
(* a result is owed to the limit alone.                                    *)
(***************************************************************************)
C13_NonPositiveLimitReturnsNothing ==
    (Called("search") /\ ~ IsBlank(CalledQuery) /\ CalledLimit <= 0)
    => CalledResults = <<>>

(***************************************************************************)
(* C14: when the store raises inside a delegated call (an exception that   *)
(* is neither the unknown-operation answer nor an argument-shape error),   *)
(* the envelope call_tool returns is the same whatever the text of the     *)
(* exception is: the envelope returned is the one any other store fault    *)
(* text would have produced.                                               *)
(***************************************************************************)
\* exceptions raised by the shape of the arguments
ArgumentShapeErrors == {"KeyError", "ValidationError"}

\* str(e) of exceptions sqlite3 raises
StoreFaultDetails ==
    {"UNIQUE constraint failed: users.email", "database is locked"}

C14_StoreFaultEnvelopeIsGeneric ==
    [][(/\ lastCall'.server = "main"
        /\ LET b == ToolBody(users, seq, lastCall'.name, lastCall'.arguments)
           IN  b.exc # "none" /\ b.exc \notin ArgumentShapeErrors)
       => \A d \in StoreFaultDetails : resp' = call_tool_except(d)]_vars

(***************************************************************************)
(* C15: fetch resolves its identifier by this rule exactly: the row of     *)
(* that id when the identifier is decimal digits only; else the row whose  *)
(* address equals the identifier without regard to letter case when the    *)
(* identifier contains "@"; the id lookup first, its result winning; an    *)
(* identifier that is neither (digits with a leading blank or a sign, for  *)
(* example) resolves to no row.                                            *)
(***************************************************************************)
\* the row the rule resolves identifier s to, or None
RuleLookup(us, s) ==
    LET byId == IF IsDigit(s) THEN get_user(us, NatVal(s)) ELSE None
        byAddress == IF Contains(s, <<"@">>) THEN FindByEmail(us, s) ELSE None
    IN  IF byId # None THEN byId ELSE byAddress

C15_FetchDisambiguationRule ==
    (lastCall.server = "main" /\ lastCall.name = "fetch")
    => LET s == FetchIdentifier(lastCall.arguments)
           user == RuleLookup(users, s)
       IN  /\ resp.error = None
           /\ resp.result = (IF user # None THEN FetchResult(user)
                             ELSE FetchNotFound(s))
           /\ (~ IsDigit(s) /\ ~ Contains(s, <<"@">>))
                 => resp.result.metadata = None

(***************************************************************************)
(* C16: an update of a stored row to an address that another row holds is  *)
(* answered by the UNIQUE-constraint error and leaves every row (the       *)
(* targeted one and the one that owns the address) as it was; an update or *)
(* a delete of an id that no row has returns None / False ("User not       *)
(* found") and leaves the rows as they were.                               *)
(***************************************************************************)
\* the next call is operation name of src/main.py with all of its arguments
Calls(name, keys) ==
    /\ lastCall'.server = "main"
    /\ lastCall'.name = name
    /\ keys \subseteq DOMAIN lastCall'.arguments

\* some row has id i
Stored(i) == \E k \in 1..Len(users) : users[k].id = i

C16_RejectedUpdateAndAbsentIdChangeNothing ==
    [][/\ (/\ Calls("update_user", {"user_id", "name", "email"})
           /\ Stored(lastCall'.arguments["user_id"])
           /\ \E k \in 1..Len(users) :
                 /\ users[k].id # lastCall'.arguments["user_id"]
                 /\ users[k].email = lastCall'.arguments["email"])
          => (/\ resp'.result = None
              /\ resp'.error # None
              /\ resp'.error.detail = "UNIQUE constraint failed: users.email"
              /\ users' = users
              /\ seq' = seq)
       /\ (/\ Calls("update_user", {"user_id", "name", "email"})
           /\ ~ Stored(lastCall'.arguments["user_id"]))
          => (/\ update_user(users, lastCall'.arguments["user_id"],
                             lastCall'.arguments["name"],
                             lastCall'.arguments["email"]).user = None
              /\ resp'.error = None
              /\ resp'.result.template = "User not found: ID={user_id}"
              /\ users' = users
              /\ seq' = seq)
       /\ (/\ Calls("delete_user", {"user_id"})
           /\ ~ Stored(lastCall'.arguments["user_id"]))
          => (/\ delete_user(users, lastCall'.arguments["user_id"]).success = FALSE
              /\ resp'.error = None
              /\ resp'.result.template = "User not found: ID={user_id}"
              /\ users' = users
              /\ seq' = seq)]_vars

\* the last call was an update of the second row to the first row's address,
\* answered by the constraint error
C16_Witness ==
    /\ lastCall.server = "main"
    /\ lastCall.name = "update_user"
    /\ resp.error # None
    /\ resp.error.detail = "UNIQUE constraint failed: users.email"
    /\ Len(users) = 2
    /\ lastCall.arguments["user_id"] = users[2].id
    /\ lastCall.arguments["email"] = users[1].email

(***************************************************************************)
(* C17: an id given out by create is never given out again.  seq is the    *)
(* largest id ever assigned (the table's AUTOINCREMENT sequence): it never *)
(* decreases, no row has an id above it, every successful create returns   *)
(* an id above it (so above every id assigned before, also when the row    *)
(* with the largest id has been deleted) and moves it to that id; an       *)
(* update changes no row's id; and the fetch of str(i) for an assigned id  *)
(* i whose row was deleted finds no row.                                   *)
(***************************************************************************)
C17_IdsNeverReused ==
    /\ [](/\ \A k \in 1..Len(users) : users[k].id <= seq
          /\ \A i \in 1..seq :
                IF Stored(i)
                THEN FetchedById(i).result.metadata.user_id = i
                ELSE FetchedById(i).result.metadata = None)
    /\ [][/\ seq' >= seq
          /\ (Calls("create_user", {"name", "email"}) /\ resp'.error = None)
                => (/\ resp'.result.id > seq
                    /\ \A k \in 1..Len(users) : resp'.result.id > users[k].id
                    /\ seq' = resp'.result.id
                    /\ users' = Append(users, users'[Len(users')])
                    /\ users'[Len(users')].id = resp'.result.id)
          /\ Calls("update_user", {})
                => (/\ Len(users') = Len(users)
                    /\ \A k \in 1..Len(users) : users'[k].id = users[k].id)]_vars

\* the only row of the store has id 2: it was created after the row with
\* id 1, the largest id then, had been deleted
C17_Witness ==
    /\ lastCall.server = "main"
    /\ lastCall.name = "create_user"
    /\ resp.result # None
    /\ resp.result.id = 2
    /\ Len(users) = 1
    /\ users[1].id = 2

====
